---- MODULE Spec2Model ----
(***************************************************************************)
(* Model of Neo4jModelService (src/lib/service/neo4j.model.service.ts):    *)
(* the statement builders, the Cypher statements they produce as executed  *)
(* by the graph store, the pagination normalizer, the search scoring, the  *)
(* constraint transaction and the debug logging around every call.         *)
(*                                                                         *)
(* Strings are sequences of one-character strings, so that split, join,    *)
(* CONTAINS and JSON.stringify are computed, not assumed.                  *)
(***************************************************************************)
EXTENDS Integers, Sequences, FiniteSets, TLC

VARIABLES
    store,      \* the graph: sequence of nodes [label, props], in scan order
    clock,      \* the server time timestamp() returns
    timestamp,  \* the service's timestamp marker ("" when not configured)
    logger,     \* "absent", "ok", or "faulty" (a debug call may throw)
    last,       \* the last public operation: statement, session, outcome
    constraints,\* what getCypherConstraints(label) returns for the label
    tx,         \* the runCypherConstraints call in progress
    schema      \* constraint statements committed to the database

vars == <<store, clock, timestamp, logger, last, constraints, tx, schema>>

(***************************************************************************)
(* Bounds                                                                  *)
(***************************************************************************)
MaxNodes == 3
MaxClock == 2
MaxPropLen == 3
MaxTerms == 2
MaxPage == 5
MaxQueries == 3

(***************************************************************************)
(* Values, property bags, nodes                                            *)
(***************************************************************************)
Num(n) == [t |-> "num", n |-> n, s |-> <<>>]
Str(s) == [t |-> "str", n |-> 0, s |-> s]

label == "Person"
OtherLabel == "Other"

NoProps == [k \in {} |-> Num(0)]

\* all property bags over the keys K with values in V
BagsOver(K, V) == UNION {[D -> V] : D \in SUBSET K}

Node(l, p) == [label |-> l, props |-> p]

\* toNeo4j / fromNeo4j: the default mappers are shallow copies
toNeo4j(t) == [k \in DOMAIN t |-> t[k]]
fromNeo4j(model) == [k \in DOMAIN model |-> model[k]]

(***************************************************************************)
(* Strings                                                                 *)
(***************************************************************************)
Quote == "\""
Backslash == "\\"
Digits == <<"0", "1", "2", "3", "4", "5", "6", "7", "8", "9">>

RECURSIVE Flatten(_)
\* apoc.text.join(list, ''): concatenation in order, no separator
Flatten(ss) == IF ss = <<>> THEN <<>> ELSE Head(ss) \o Flatten(Tail(ss))

\* w CONTAINS t (case-sensitive substring)
Contains(w, t) ==
    \E i \in 0..(Len(w) - Len(t)) : SubSeq(w, i + 1, i + Len(t)) = t

RECURSIVE SplitFrom(_, _, _)
SplitFrom(s, i, cur) ==
    IF i > Len(s) THEN <<cur>>
    ELSE IF s[i] = " " THEN <<cur>> \o SplitFrom(s, i + 1, <<>>)
    ELSE SplitFrom(s, i + 1, Append(cur, s[i]))

\* Cypher split(s, ' '): cut at every single space; split('') is ['']
split(s) == SplitFrom(s, 1, <<>>)

RECURSIVE NatToChars(_)
NatToChars(n) ==
    IF n < 10 THEN <<Digits[n + 1]>>
    ELSE NatToChars(n \div 10) \o <<Digits[(n % 10) + 1]>>

RECURSIVE EscapeChars(_)
EscapeChars(s) ==
    IF s = <<>> THEN <<>>
    ELSE (IF Head(s) \in {Quote, Backslash}
          THEN <<Backslash, Head(s)>> ELSE <<Head(s)>>) \o EscapeChars(Tail(s))

\* JSON.stringify of a scalar: digits for a number, a quoted,
\* escaped literal for a string
JSONstringify(v) ==
    IF v.t = "num"
    THEN (IF v.n < 0 THEN <<"-">> \o NatToChars(-v.n) ELSE NatToChars(v.n))
    ELSE <<Quote>> \o EscapeChars(v.s) \o <<Quote>>

DigitValue(c) == CHOOSE d \in 0..9 : Digits[d + 1] = c

RECURSIVE CharsToNat(_, _)
CharsToNat(cs, acc) ==
    IF cs = <<>> THEN acc
    ELSE CharsToNat(Tail(cs), 10 * acc + DigitValue(Head(cs)))

RECURSIVE UnescapeChars(_)
\* the body of a Cypher string literal up to its closing quote
UnescapeChars(cs) ==
    IF cs = <<>> \/ Head(cs) = Quote THEN <<>>
    ELSE IF Head(cs) = Backslash /\ Len(cs) > 1
         THEN <<cs[2]>> \o UnescapeChars(Tail(Tail(cs)))
         ELSE <<Head(cs)>> \o UnescapeChars(Tail(cs))

\* the value the database reads from a literal embedded in statement text
CypherLiteral(lit) ==
    IF Head(lit) = Quote THEN Str(UnescapeChars(Tail(lit)))
    ELSE IF Head(lit) = "-" THEN Num(-CharsToNat(Tail(lit), 0))
    ELSE Num(CharsToNat(lit, 0))

(***************************************************************************)
(* Ordering of values (ORDER BY): strings before numbers, null last        *)
(***************************************************************************)
Alphabet == <<" ", Quote, Backslash, "a", "b", "c", "d", "e", "l", "r", "u">>

CharCode(c) == CHOOSE i \in 1..Len(Alphabet) : Alphabet[i] = c

RECURSIVE StrLess(_, _)
StrLess(a, b) ==
    IF b = <<>> THEN FALSE
    ELSE IF a = <<>> THEN TRUE
    ELSE IF Head(a) = Head(b) THEN StrLess(Tail(a), Tail(b))
    ELSE CharCode(Head(a)) < CharCode(Head(b))

\* the sort key of row p under ORDER BY n.`k`: <<>> is null (property absent)
SortKey(p, k) == IF k \in DOMAIN p THEN <<p[k]>> ELSE <<>>

KeyLess(x, y) ==
    IF x = <<>> THEN FALSE
    ELSE IF y = <<>> THEN TRUE
    ELSE IF x[1].t # y[1].t THEN x[1].t = "str"
    ELSE IF x[1].t = "str" THEN StrLess(x[1].s, y[1].s)
    ELSE x[1].n < y[1].n

\* r goes before q in the requested direction
Before(r, q, k, desc) ==
    IF desc THEN KeyLess(SortKey(q, k), SortKey(r, k))
    ELSE KeyLess(SortKey(r, k), SortKey(q, k))

RECURSIVE InsertRow(_, _, _, _)
InsertRow(r, sorted, k, desc) ==
    IF sorted = <<>> THEN <<r>>
    ELSE IF Before(r, Head(sorted), k, desc) THEN <<r>> \o sorted
    ELSE <<Head(sorted)>> \o InsertRow(r, Tail(sorted), k, desc)

RECURSIVE OrderRows(_, _, _)
\* stable: rows with equal keys stay in scan order
OrderRows(rows, k, desc) ==
    IF rows = <<>> THEN <<>>
    ELSE InsertRow(rows[Len(rows)],
                   OrderRows(SubSeq(rows, 1, Len(rows) - 1), k, desc), k, desc)

\* SKIP s LIMIT l on a row sequence (s, l >= 0)
SkipLimit(rows, s, l) ==
    SubSeq(rows, s + 1, IF s + l < Len(rows) THEN s + l ELSE Len(rows))

(***************************************************************************)
(* Pagination normalizer                                                   *)
(***************************************************************************)
\* params are objects: functions whose domain holds the fields supplied.
\* `x || d` yields d when x is undefined or 0.
convertSkipLimit(params) ==
    [skip  |-> IF "skip" \in DOMAIN params /\ params.skip # 0
               THEN params.skip ELSE 0,
     limit |-> IF "limit" \in DOMAIN params /\ params.limit # 0
               THEN params.limit ELSE 10]

(***************************************************************************)
(* Statement builders                                                      *)
(***************************************************************************)
WriteSession == [write |-> TRUE]
NoSessionOptions == [k \in {} |-> TRUE]

\* createQuery without the timestamp clause
createQueryNoStamp(props) ==
    [kind |-> "create", label |-> label, stamp |-> "",
     props |-> toNeo4j(props), sessionOptions |-> WriteSession]

createQuery(props) ==
    [kind |-> "create", label |-> label, stamp |-> timestamp,
     props |-> toNeo4j(props), sessionOptions |-> WriteSession]

\* mergeQuery matching on the label alone
mergeQueryLabelOnly(props) ==
    [kind |-> "merge", label |-> label, keys |-> {},
     stamp |-> timestamp, props |-> toNeo4j(props),
     sessionOptions |-> WriteSession]

mergeQuery(props) ==
    [kind |-> "merge", label |-> label, keys |-> DOMAIN props,
     stamp |-> timestamp, props |-> toNeo4j(props),
     sessionOptions |-> WriteSession]

\* deleteQuery without the write hint
deleteQueryNoWrite(props) ==
    [kind |-> "delete", label |-> label,
     filter |-> [k \in DOMAIN props |-> JSONstringify(props[k])],
     props |-> toNeo4j(props), sessionOptions |-> NoSessionOptions]

\* deleteQuery quoting string values without escaping them
deleteQueryNoEscape(props) ==
    [kind |-> "delete", label |-> label,
     filter |-> [k \in DOMAIN props |->
                    IF props[k].t = "str"
                    THEN <<Quote>> \o props[k].s \o <<Quote>>
                    ELSE JSONstringify(props[k])],
     props |-> toNeo4j(props), sessionOptions |-> WriteSession]

deleteQuery(props) ==
    [kind |-> "delete", label |-> label,
     filter |-> [k \in DOMAIN props |-> JSONstringify(props[k])],
     props |-> toNeo4j(props), sessionOptions |-> WriteSession]

\* orderBy "" is a missing (falsy) orderBy
Field(params, f, default) == IF f \in DOMAIN params THEN params[f] ELSE default

findAllQuery(params) ==
    [kind |-> "findAll", label |-> label,
     orderBy |-> Field(params, "orderBy", ""),
     descending |-> Field(params, "descending", FALSE),
     skip |-> convertSkipLimit(params).skip,
     limit |-> convertSkipLimit(params).limit,
     sessionOptions |-> NoSessionOptions]

findByQuery(params) ==
    [kind |-> "findBy", label |-> label,
     filter |-> [k \in DOMAIN toNeo4j(params.props) |->
                    JSONstringify(toNeo4j(params.props)[k])],
     orderBy |-> Field(params, "orderBy", ""),
     descending |-> Field(params, "descending", FALSE),
     skip |-> convertSkipLimit(params).skip,
     limit |-> convertSkipLimit(params).limit,
     sessionOptions |-> NoSessionOptions]

searchByQuery(params) ==
    [kind |-> "searchBy", label |-> label, prop |-> params.prop,
     terms |-> params.terms,
     skip |-> convertSkipLimit(params).skip,
     limit |-> convertSkipLimit(params).limit,
     sessionOptions |-> NoSessionOptions]

(***************************************************************************)
(* Search scoring (the searchBy statement)                                 *)
(***************************************************************************)
\* the filter with ALL in place of the outer ANY
CandidateAll(terms, words) ==
    \A i \in 1..Len(terms) : \E j \in 1..Len(words) : Contains(words[j], terms[i])

\* WHERE ANY (term IN $terms WHERE ANY (word IN words WHERE word CONTAINS term))
Candidate(terms, words) ==
    \E i \in 1..Len(terms) : \E j \in 1..Len(words) : Contains(words[j], terms[i])

\* the word score without the exact-match branch
WordScoreContainsOnly(w, st) == IF Contains(w, st) THEN 2 ELSE 0

\* CASE WHEN (w = st) THEN s2 + 4 ELSE CASE WHEN (w CONTAINS st) THEN s2 + 2 ...
WordScore(w, st) == IF w = st THEN 4 ELSE IF Contains(w, st) THEN 2 ELSE 0

RECURSIVE TermScore(_, _)
TermScore(st, words) ==
    IF words = <<>> THEN 0
    ELSE TermScore(st, SubSeq(words, 1, Len(words) - 1))
         + WordScore(words[Len(words)], st)

RECURSIVE SumScore(_, _)
SumScore(terms, words) ==
    IF terms = <<>> THEN 0
    ELSE SumScore(SubSeq(terms, 1, Len(terms) - 1), words)
         + TermScore(terms[Len(terms)], words)

Score(terms, words) ==
    IF Flatten(terms) = Flatten(words) THEN 100 ELSE SumScore(terms, words)

RECURSIVE InsertScored(_, _)
InsertScored(r, sorted) ==
    IF sorted = <<>> THEN <<r>>
    ELSE IF r.score > Head(sorted).score THEN <<r>> \o sorted
    ELSE <<Head(sorted)>> \o InsertScored(r, Tail(sorted))

RECURSIVE OrderByScore(_)
\* ORDER BY score DESC; equal scores stay in scan order
OrderByScore(rows) ==
    IF rows = <<>> THEN <<>>
    ELSE InsertScored(rows[Len(rows)],
                      OrderByScore(SubSeq(rows, 1, Len(rows) - 1)))

(***************************************************************************)
(* The graph store executing a statement                                   *)
(***************************************************************************)
\* MATCH / MERGE pattern (n:`label` {k: v, ...})
Matches(n, lbl, want) ==
    /\ n.label = lbl
    /\ \A k \in DOMAIN want : k \in DOMAIN n.props /\ n.props[k] = want[k]

\* SET n.`stamp` = timestamp(), when a marker is configured
Stamped(props, stamp, clk) ==
    IF stamp = "" THEN props
    ELSE [k \in DOMAIN props \cup {stamp} |->
             IF k = stamp THEN Num(clk) ELSE props[k]]

\* the nodes of the service's label
Labelled(st) == SelectSeq(st, LAMBDA n : n.label = label)

PropsOf(nodes) == [i \in 1..Len(nodes) |-> nodes[i].props]

Outcome(st, rows, err) == [store |-> st, rows |-> rows, error |-> err]

ExecCreate(q, st, clk) ==
    LET n == Node(q.label, Stamped(q.props, q.stamp, clk))
    IN  Outcome(Append(st, n), <<[created |-> n.props]>>, FALSE)

ExecMerge(q, st, clk) ==
    LET want  == [k \in q.keys |-> q.props[k]]
        found == SelectSeq(st, LAMBDA n : Matches(n, q.label, want))
        n     == Node(q.label, Stamped(want, q.stamp, clk))
    IN  IF found # <<>>
        THEN Outcome(st, [i \in 1..Len(found) |-> [merged |-> found[i].props]],
                     FALSE)
        ELSE Outcome(Append(st, n), <<[merged |-> n.props]>>, FALSE)

ExecDelete(q, st) ==
    LET want == [k \in DOMAIN q.filter |-> CypherLiteral(q.filter[k])]
        gone == SelectSeq(st, LAMBDA n : Matches(n, q.label, want))
        kept == SelectSeq(st, LAMBDA n : ~Matches(n, q.label, want))
    IN  Outcome(kept, [i \in 1..Len(gone) |-> [deleted |-> gone[i].props]],
                FALSE)

\* RETURN properties(n) AS matched [ORDER BY ...] SKIP $skip LIMIT $limit;
\* the database rejects a negative SKIP or LIMIT
ExecFind(q, st, want) ==
    LET found == PropsOf(SelectSeq(st, LAMBDA n : Matches(n, q.label, want)))
        sorted == IF q.orderBy = "" THEN found
                  ELSE OrderRows(found, q.orderBy, q.descending)
        page == SkipLimit(sorted, q.skip, q.limit)
    IN  IF q.skip < 0 \/ q.limit < 0 THEN Outcome(st, <<>>, TRUE)
        ELSE Outcome(st, [i \in 1..Len(page) |-> [matched |-> page[i]]], FALSE)

\* split(n.`prop`, ' ') is null for a missing property and a type error for
\* a number; a null word list fails the WHERE
ExecSearch(q, st) ==
    LET labelled == SelectSeq(st, LAMBDA n : n.label = q.label)
        HasText(n) == q.prop \in DOMAIN n.props
        typeError == \E i \in 1..Len(labelled) :
                        HasText(labelled[i]) /\ labelled[i].props[q.prop].t # "str"
        Words(n) == split(n.props[q.prop].s)
        cands == SelectSeq(labelled,
                    LAMBDA n : HasText(n) /\ Candidate(q.terms, Words(n)))
        scored == [i \in 1..Len(cands) |->
                    [matched |-> cands[i].props,
                     score |-> Score(q.terms, Words(cands[i]))]]
    IN  IF typeError \/ q.skip < 0 \/ q.limit < 0 THEN Outcome(st, <<>>, TRUE)
        ELSE Outcome(st, SkipLimit(OrderByScore(scored), q.skip, q.limit), FALSE)

Exec(q, st, clk) ==
    CASE q.kind = "create"   -> ExecCreate(q, st, clk)
      [] q.kind = "merge"    -> ExecMerge(q, st, clk)
      [] q.kind = "delete"   -> ExecDelete(q, st)
      [] q.kind = "findAll"  -> ExecFind(q, st, NoProps)
      [] q.kind = "findBy"   ->
            ExecFind(q, st, [k \in DOMAIN q.filter |-> CypherLiteral(q.filter[k])])
      [] q.kind = "searchBy" -> ExecSearch(q, st)

(***************************************************************************)
(* Execution adapter: session provider and debug logging                   *)
(***************************************************************************)
\* Neo4jService.run opens its session from the statement's sessionOptions
SessionFor(sessionOptions) ==
    IF "write" \in DOMAIN sessionOptions /\ sessionOptions.write
    THEN "write" ELSE "read"

\* where a debug call of this operation throws: 0 nowhere, 1 the call on
\* entry of the public method, 2 the call before run, 3 the call after it.
\* `this.logger?.debug(..)` is skipped without a logger and is not guarded.
ThrowPoints == IF logger = "faulty" THEN 0..3 ELSE {0}

runWithDebug(q, throwsAt) ==
    LET ran == throwsAt \notin {1, 2}
        res == Exec(q, store, clock)
    IN  [sent    |-> IF ran THEN <<q>> ELSE <<>>,
         session |-> IF ran THEN SessionFor(q.sessionOptions) ELSE "none",
         store   |-> IF ran THEN res.store ELSE store,
         rows    |-> IF ran /\ ~res.error /\ throwsAt = 0 THEN res.rows ELSE <<>>,
         outcome |-> IF ~ran THEN "logger_error"
                     ELSE IF res.error THEN "db_error"
                     ELSE IF throwsAt = 3 THEN "logger_error" ELSE "ok"]

\* one caller: a public call starts when the previous one has returned
CallerFree == tx.pc # "running"

NoOp ==
    [op |-> "none", arg |-> NoProps, sent |-> <<>>, session |-> "none",
     outcome |-> "none", ret |-> <<>>]

Returned(op, arg, r, ret) ==
    [op |-> op, arg |-> arg, sent |-> r.sent, session |-> r.session,
     outcome |-> r.outcome, ret |-> IF r.outcome = "ok" THEN ret ELSE <<>>]

(***************************************************************************)
(* Public operations                                                       *)
(***************************************************************************)
create(props) ==
    /\ CallerFree
    /\ \E t \in ThrowPoints :
        LET r == runWithDebug(createQuery(props), t)
        IN  /\ Len(Labelled(r.store)) <= MaxNodes
            /\ store' = r.store
            /\ last' = Returned("create", props, r,
                         IF Len(r.rows) > 0
                         THEN <<fromNeo4j(r.rows[1].created)>> ELSE <<>>)
            /\ UNCHANGED <<clock, timestamp, logger, constraints, tx, schema>>

merge(props) ==
    /\ CallerFree
    /\ \E t \in ThrowPoints :
        LET r == runWithDebug(mergeQuery(props), t)
        IN  /\ Len(Labelled(r.store)) <= MaxNodes
            /\ store' = r.store
            /\ last' = Returned("merge", props, r,
                         IF Len(r.rows) > 0
                         THEN <<fromNeo4j(r.rows[1].merged)>> ELSE <<>>)
            /\ UNCHANGED <<clock, timestamp, logger, constraints, tx, schema>>

delete(props) ==
    /\ CallerFree
    /\ \E t \in ThrowPoints :
        LET r == runWithDebug(deleteQuery(props), t)
        IN  /\ store' = r.store
            /\ last' = Returned("delete", props, r,
                         [i \in 1..Len(r.rows) |-> fromNeo4j(r.rows[i].deleted)])
            /\ UNCHANGED <<clock, timestamp, logger, constraints, tx, schema>>

findAll(params) ==
    /\ CallerFree
    /\ \E t \in ThrowPoints :
        LET r == runWithDebug(findAllQuery(params), t)
        IN  /\ last' = Returned("findAll", params, r,
                         [i \in 1..Len(r.rows) |-> fromNeo4j(r.rows[i].matched)])
            /\ UNCHANGED <<store, clock, timestamp, logger, constraints, tx, schema>>

findBy(params) ==
    /\ CallerFree
    /\ \E t \in ThrowPoints :
        LET r == runWithDebug(findByQuery(params), t)
        IN  /\ last' = Returned("findBy", params, r,
                         [i \in 1..Len(r.rows) |-> fromNeo4j(r.rows[i].matched)])
            /\ UNCHANGED <<store, clock, timestamp, logger, constraints, tx, schema>>

searchBy(params) ==
    /\ CallerFree
    /\ \E t \in ThrowPoints :
        LET r == runWithDebug(searchByQuery(params), t)
        IN  /\ last' = Returned("searchBy", params, r,
                         [i \in 1..Len(r.rows) |->
                            <<fromNeo4j(r.rows[i].matched), r.rows[i].score>>])
            /\ UNCHANGED <<store, clock, timestamp, logger, constraints, tx, schema>>

\* the server clock advances between statements
Tick ==
    /\ clock < MaxClock
    /\ clock' = clock + 1
    /\ UNCHANGED <<store, timestamp, logger, last, constraints, tx, schema>>

(***************************************************************************)
(* runCypherConstraints and the transaction it drives                      *)
(***************************************************************************)
NoTx ==
    [pc |-> "idle", queries |-> <<>>, mode |-> "none", session |-> "none",
     executed |-> 0, failed |-> FALSE, cause |-> "none", base |-> {},
     events |-> <<>>]

Event(e, i) == [e |-> e, i |-> i]

\* getCypherConstraints(label): the statements configured for the label
getCypherConstraints(l) == constraints

\* getSession({ write: true })
getSession(sessionOptions) == SessionFor(sessionOptions)

\* tx.run(query) with the alternative of session.run(query), which commits
\* each statement on its own
RunTargetSession == "session"

RunTarget == "tx"

\* Lines 52-60 up to the await: the entry debug call, then begin, one
\* tx.run per statement (none awaited) and the call of commit, in one turn.
runCypherConstraints ==
    /\ CallerFree
    /\ \E t \in (IF logger = "faulty" THEN {0, 1} ELSE {0}) :
        LET queries == getCypherConstraints(label)
            runs == [i \in 1..Len(queries) |-> Event("run", i)]
        IN  tx' = IF t = 1
                  THEN [NoTx EXCEPT !.pc = "failed", !.cause = "logger",
                                    !.base = schema]
                  ELSE [pc |-> "running", queries |-> queries,
                        mode |-> RunTarget,
                        session |-> getSession(WriteSession),
                        executed |-> 0, failed |-> FALSE, cause |-> "none",
                        base |-> schema,
                        events |-> <<Event("begin", 0)>> \o runs
                                   \o <<Event("commit", 0)>>]
    /\ UNCHANGED <<store, clock, timestamp, logger, last, constraints, schema>>

\* the server executes the next statement of the pipeline; it may fail, and
\* after a failure the server ignores what follows in the transaction
ServerRun ==
    /\ tx.pc = "running"
    /\ ~tx.failed
    /\ tx.executed < Len(tx.queries)
    /\ \E ok \in BOOLEAN :
        /\ tx' = [tx EXCEPT !.executed = @ + 1,
                            !.failed = ~ok,
                            !.cause = IF ok THEN "none" ELSE "statement",
                            !.events = Append(@,
                                Event(IF ok THEN "done" ELSE "error",
                                      tx.executed + 1))]
        /\ schema' = IF ok /\ tx.mode = "session"
                     THEN schema \cup {tx.queries[tx.executed + 1]}
                     ELSE schema
    /\ UNCHANGED <<store, clock, timestamp, logger, last, constraints>>

\* commit resolves: every statement succeeded and all take effect at once,
\* or one failed, nothing of the transaction is kept and the call rejects
ServerCommit ==
    /\ tx.pc = "running"
    /\ tx.failed \/ tx.executed = Len(tx.queries)
    /\ tx' = [tx EXCEPT !.pc = IF tx.failed THEN "failed" ELSE "done",
                        !.events = Append(@,
                            Event(IF tx.failed THEN "rolledback"
                                  ELSE "committed", 0))]
    /\ schema' = IF tx.failed THEN schema
                 ELSE schema \cup {tx.queries[i] : i \in 1..Len(tx.queries)}
    /\ UNCHANGED <<store, clock, timestamp, logger, last, constraints>>

(***************************************************************************)
(* Specification of the store-mutating operations                          *)
(***************************************************************************)
NameKey == "name"
MarkerKey == "at"
TextValue == Str(<<"a", Quote>>)
\* name is absent, a text or a number; the marker key is absent or a number
PropertyBags ==
    {b \in BagsOver({NameKey, MarkerKey}, {TextValue, Num(1)}) :
        MarkerKey \in DOMAIN b => b[MarkerKey] = Num(1)}


\* a node of another label is in the graph from the start
InitStores == {<<Node(OtherLabel, [k \in {NameKey} |-> TextValue])>>}

Init ==
    /\ store \in InitStores
    /\ clock = 1
    /\ timestamp \in {"", MarkerKey}
    /\ logger = "ok"
    /\ last = NoOp
    /\ constraints = <<>>
    /\ tx = NoTx
    /\ schema = {}

Next ==
    \/ Tick
    \/ \E props \in PropertyBags : create(props)
    \/ \E props \in PropertyBags : merge(props)
    \/ \E props \in PropertyBags : delete(props)

Spec == Init /\ [][Next]_vars

(***************************************************************************)
(* Properties of create, merge and delete (specification Spec)             *)
(***************************************************************************)
\* In Spec only Tick changes the clock: a step that keeps the clock is the
\* public operation recorded in last'.
OpStep(op) == clock' = clock /\ last'.op = op

Found(st, props) == SelectSeq(st, LAMBDA n : Matches(n, label, props))

Grown == Len(store') = Len(store) + 1 /\ SubSeq(store', 1, Len(store)) = store

NewNode == store'[Len(store')]

\* the bags differ in exactly one property (a key of one only, or one value)
DifferInOne(a, b) ==
    Cardinality({k \in DOMAIN a \cup DOMAIN b :
        k \notin DOMAIN a \/ k \notin DOMAIN b \/ a[k] # b[k]}) = 1

C5_TimestampStamping ==
    [][(OpStep("create") \/ OpStep("merge")) =>
          /\ OpStep("create") => Len(store') > Len(store)
          /\ (OpStep("merge") /\ Found(store, last'.arg) # <<>>) => store' = store
          /\ Len(store') > Len(store) =>
                /\ Grown
                /\ IF timestamp # ""
                   THEN /\ timestamp \in DOMAIN NewNode.props
                        /\ NewNode.props[timestamp] = Num(clock)
                   ELSE NewNode.props = last'.arg
          /\ Len(store') <= Len(store) => store' = store]_vars

\* a merge with the empty bag returned a node that has a name, so it matched
\* a node stamped earlier, and the clock has moved on since
C5_Witness ==
    /\ timestamp = MarkerKey
    /\ last.op = "merge"
    /\ DOMAIN last.arg = {}
    /\ Len(last.ret) = 1
    /\ NameKey \in DOMAIN last.ret[1]
    /\ last.ret[1][MarkerKey] = Num(1)
    /\ clock = 2

SearchChars == {"a", "b", " "}

RECURSIVE StringsUpTo(_, _)
StringsUpTo(chars, n) ==
    IF n = 0 THEN {<<>>}
    ELSE StringsUpTo(chars, n - 1)
         \cup {Append(w, c) : w \in StringsUpTo(chars, n - 1), c \in chars}

RedBlueRed == <<"r", "e", "d", " ", "b", "l", "u", "e", " ", "r", "e", "d">>
AbCd == <<"a", "b", " ", "c", "d">>
Red == <<"r", "e", "d">>
Blue == <<"b", "l", "u", "e">>

TextBag(s) == [k \in {NameKey} |-> Str(s)]

Texts ==
    {NoProps, TextBag(RedBlueRed)}
    \cup {TextBag(w) : w \in StringsUpTo(SearchChars, MaxPropLen)}

TermPool == {<<>>, <<"a">>, <<"a", "b">>, <<"c", "d">>, Red, Blue}

RECURSIVE SeqsUpTo(_, _)
SeqsUpTo(S, n) ==
    IF n = 0 THEN {<<>>}
    ELSE SeqsUpTo(S, n - 1) \cup {Append(q, x) : q \in SeqsUpTo(S, n - 1), x \in S}

SearchPages == {NoProps, [skip |-> 1, limit |-> 1]}

SearchParams ==
    {[prop |-> NameKey, terms |-> ts] @@ pg :
        ts \in SeqsUpTo(TermPool, MaxTerms), pg \in SearchPages}

InitSearch ==
    /\ \E p \in Texts : store = <<Node(label, p), Node(label, TextBag(AbCd))>>
    /\ clock = 1
    /\ timestamp = ""
    /\ logger = "ok"
    /\ last = NoOp
    /\ constraints = <<>>
    /\ tx = NoTx
    /\ schema = {}

NextSearch == last.op = "none" /\ \E params \in SearchParams : searchBy(params)

SpecSearch == InitSearch /\ [][NextSearch]_vars

\* the pairs (term index, word index) that satisfy R
Pairs(terms, words, R(_, _)) ==
    {<<i, j>> \in (1..Len(terms)) \X (1..Len(words)) : R(words[j], terms[i])}

\* the score the claim gives a node with these words
ClaimedScore(terms, words) ==
    IF Flatten(terms) = Flatten(words) THEN 100
    ELSE 4 * Cardinality(Pairs(terms, words, LAMBDA w, t : w = t))
         + 2 * Cardinality(Pairs(terms, words,
                               LAMBDA w, t : w # t /\ Contains(w, t)))

Searched == last.op = "searchBy" /\ last.outcome = "ok"

\* C1: every returned node scores 100 when the terms joined equal its words
\* joined, and otherwise 4 per (term, word) pair that is equal plus 2 per
\* pair where the word only contains the term; "red blue red" scores 12 for
\* [red, blue] and "ab cd" scores 100 for [ab, cd].
C1_SearchScore ==
    Searched =>
        \A i \in 1..Len(last.ret) :
            LET text == last.ret[i][1][NameKey].s
                score == last.ret[i][2]
            IN  /\ score = ClaimedScore(last.arg.terms, split(text))
                /\ (text = RedBlueRed /\ last.arg.terms = <<Red, Blue>>)
                      => score = 12
                /\ (text = AbCd /\ last.arg.terms = <<<<"a", "b">>, <<"c", "d">>>>)
                      => score = 100

\* "red blue red" was returned with score 12 for the terms [red, blue]
C1_Witness ==
    /\ Searched
    /\ last.arg.terms = <<Red, Blue>>
    /\ \E i \in 1..Len(last.ret) :
          last.ret[i][1][NameKey].s = RedBlueRed /\ last.ret[i][2] = 12

ReturnedTexts == {last.ret[i][1] : i \in 1..Len(last.ret)}

HasTermInWord(terms, text) ==
    \E i \in 1..Len(terms) : \E j \in 1..Len(split(text)) :
        Contains(split(text)[j], terms[i])

\* C2 as stated: a returned node has a term inside one of its words, no node
\* is returned for an empty term list, and no node without the property or
\* with an empty value is ever returned.
C2_Original ==
    Searched =>
        /\ \A p \in ReturnedTexts :
              /\ NameKey \in DOMAIN p
              /\ HasTermInWord(last.arg.terms, p[NameKey].s)
              /\ p[NameKey].s # <<>>
        /\ last.arg.terms = <<>> => last.ret = <<>>

\* C2 amended: as stated, except that a node with an empty value is returned
\* only when some term is the empty string.
C2_CandidateFilter ==
    Searched =>
        /\ \A p \in ReturnedTexts :
              /\ NameKey \in DOMAIN p
              /\ HasTermInWord(last.arg.terms, p[NameKey].s)
              /\ p[NameKey].s = <<>> =>
                    \E i \in 1..Len(last.arg.terms) : last.arg.terms[i] = <<>>
        /\ last.arg.terms = <<>> => last.ret = <<>>

\* a search whose terms include the empty string returned the node with the
\* empty value
C2_Witness ==
    /\ Searched
    /\ \E p \in ReturnedTexts : p[NameKey].s = <<>>

(***************************************************************************)
(* Specification of the paginated reads                                    *)
(***************************************************************************)
PageValues == (-1)..MaxPage

SkipLimits == BagsOver({"skip", "limit"}, PageValues)

Orderings ==
    {NoProps, [k \in {"orderBy"} |-> NameKey],
     [orderBy |-> NameKey, descending |-> TRUE]}

PageParams == {sl @@ o : sl \in SkipLimits, o \in Orderings}

FindByParams ==
    {[k \in {"props"} |-> b] @@ sl :
        b \in {NoProps, TextBag(<<"b">>)}, sl \in SkipLimits}

InitPage ==
    /\ store = <<Node(label, TextBag(<<"b">>)), Node(label, NoProps),
                 Node(label, TextBag(<<"a">>)), Node(OtherLabel, NoProps)>>
    /\ clock = 1
    /\ timestamp = ""
    /\ logger = "ok"
    /\ last = NoOp
    /\ constraints = <<>>
    /\ tx = NoTx
    /\ schema = {}

NextPage ==
    \/ \E params \in PageParams : findAll(params)
    \/ \E params \in FindByParams : findBy(params)

SpecPage == InitPage /\ [][NextPage]_vars

\* C3: the statement carries the supplied skip, or 0 when none is supplied,
\* and the supplied limit, or 10 when none is supplied; a supplied integer,
\* 0 and negatives included, is never replaced by a default.
C3_Original ==
    (last.op \in {"findAll", "findBy"} /\ Len(last.sent) = 1) =>
        /\ last.sent[1].skip = Field(last.arg, "skip", 0)
        /\ last.sent[1].limit = Field(last.arg, "limit", 10)

(***************************************************************************)
(* Specification of runCypherConstraints                                   *)
(***************************************************************************)
ConstraintPool == {"c1", "c2"}

InitTx ==
    /\ store = <<>>
    /\ clock = 1
    /\ timestamp = ""
    /\ logger \in {"absent", "ok", "faulty"}
    /\ last = NoOp
    /\ constraints \in SeqsUpTo(ConstraintPool, MaxQueries)
    /\ tx = NoTx
    /\ schema = {}

NextTx ==
    \/ runCypherConstraints
    \/ ServerRun
    \/ ServerCommit

SpecTx == InitTx /\ [][NextTx]_vars

Position(e, i) ==
    IF \E k \in 1..Len(tx.events) : tx.events[k] = Event(e, i)
    THEN CHOOSE k \in 1..Len(tx.events) : tx.events[k] = Event(e, i)
    ELSE 0

Ended(i) == IF Position("done", i) > 0 THEN Position("done", i)
            ELSE Position("error", i)

\* C6 as stated: the transaction is begun on a write session, statement i
\* has completed before statement i+1 is run, commit is issued only after
\* every statement has completed, and nothing runs after the commit.
C6_Original ==
    tx.events # <<>> =>
        /\ tx.session = "write"
        /\ tx.events[1] = Event("begin", 0)
        /\ \A i \in 2..Len(tx.queries) :
              Position("run", i) > 0 =>
                  /\ Ended(i - 1) > 0
                  /\ Ended(i - 1) < Position("run", i)
        /\ \A i \in 1..Len(tx.queries) :
              Position("commit", 0) > 0 =>
                  /\ Position("run", i) > 0
                  /\ Position("run", i) < Position("commit", 0)
                  /\ Ended(i) > 0
                  /\ Ended(i) < Position("commit", 0)

Statements == {tx.queries[i] : i \in 1..Len(tx.queries)}

\* C7: a call in which a statement failed never commits: the schema is what
\* it was before the call, while the call runs and after it failed, and a
\* call that committed added every statement, none having failed.
C7_AllOrNothing ==
    /\ tx.pc = "running" => schema = tx.base
    /\ tx.pc = "failed" => schema = tx.base
    /\ tx.pc = "done" => (~tx.failed /\ schema = tx.base \cup Statements)
    /\ tx.failed => tx.pc # "done"

\* the second of three statements failed after the first succeeded, the call
\* was rejected and the first statement's constraint is not in the schema
C7_Witness ==
    /\ tx.pc = "failed"
    /\ tx.cause = "statement"
    /\ Len(tx.queries) = 3
    /\ Position("done", 1) > 0
    /\ Position("error", 2) > 0
    /\ tx.queries[1] \notin schema

(***************************************************************************)
(* Specification of all seven operations, with every kind of logger        *)
(***************************************************************************)
AllBags == {NoProps, TextBag(<<"a">>)}
AllPages == {NoProps, [k \in {"skip"} |-> -1]}
AllFindBy == {[k \in {"props"} |-> b] @@ pg : b \in AllBags, pg \in AllPages}
AllSearch ==
    {[prop |-> NameKey, terms |-> <<<<"a">>>>] @@ pg : pg \in AllPages}

InitAll ==
    /\ store = <<>>
    /\ clock = 1
    /\ timestamp = MarkerKey
    /\ logger \in {"absent", "ok", "faulty"}
    /\ last = NoOp
    /\ constraints = <<"c1", "c2">>
    /\ tx = NoTx
    /\ schema = {}

NextAll ==
    \/ \E props \in AllBags : create(props)
    \/ \E props \in AllBags : merge(props)
    \/ \E props \in AllBags : delete(props)
    \/ \E params \in AllPages : findAll(params)
    \/ \E params \in AllFindBy : findBy(params)
    \/ \E params \in AllSearch : searchBy(params)
    \/ runCypherConstraints
    \/ ServerRun
    \/ ServerCommit

SpecAll == InitAll /\ [][NextAll]_vars

\* C8 as stated: whatever the logger does, the operation sends its statement
\* and its outcome is the statement's: no call fails because a debug call
\* failed.
C8_Original ==
    /\ last.op # "none" => (Len(last.sent) = 1 /\ last.outcome # "logger_error")
    /\ tx.pc = "failed" => tx.cause # "logger"

Mutating == {"create", "merge", "delete"}
Reading == {"findAll", "findBy", "searchBy"}

\* C10: a create, merge or delete statement carries write = true and runs
\* on a write session, a findAll, findBy or searchBy statement carries no
\* write hint and runs on a read session, and the constraint transaction is
\* begun on a write session.
C10_Routing ==
    /\ \A i \in 1..Len(last.sent) :
          /\ last.sent[i].kind = last.op
          /\ last.op \in Mutating =>
                /\ last.sent[i].sessionOptions = [write |-> TRUE]
                /\ last.session = "write"
          /\ last.op \in Reading =>
                /\ "write" \notin DOMAIN last.sent[i].sessionOptions
                /\ last.session = "read"
    /\ tx.events # <<>> => tx.session = "write"

\* a delete removed a node on a write session
C10_Witness ==
    /\ last.op = "delete"
    /\ last.session = "write"
    /\ Len(last.ret) = 1
    /\ logger = "absent"

====
